---- MODULE Spec2Model ----
(***************************************************************************)
(* A model of torch/optim/rmsprop.py: the RMSprop constructor, step() and  *)
(* the two update engines (_single_tensor_rmsprop, _multi_tensor_rmsprop). *)
(*                                                                         *)
(* Tensors are modelled by one element (every tensor operation used is     *)
(* elementwise).  A floating-point number is modelled by a small float     *)
(* format: a fixed-point value n / Scale with |n| <= MaxVal, rounded       *)
(* toward zero, overflowing to +inf / -inf, with NaN for 0/0, inf - inf,   *)
(* 0 * inf and the square root of a negative number.                       *)
(***************************************************************************)
EXTENDS Integers, Sequences, FiniteSets, TLC

\* ---------------------------------------------------------------- bounds
\* Fixed-point resolution: the integer n stands for the number n / Scale.
Scale == 4
\* Largest finite magnitude (in units of 1 / Scale); beyond it a value is infinite.
MaxVal == 40
\* Engine steps explored by the engine specification.
MaxEngineSteps == 2

\* ------------------------------------------------------ floating point
PInf == MaxVal + 1
NInf == -(MaxVal + 1)
NaN == MaxVal + 2

One == Scale
Half == Scale \div 2

IsNaN(x) == x = NaN
IsInf(x) == x = PInf \/ x = NInf
Abs(n) == IF n < 0 THEN -n ELSE n
Sign(x) == IF x > 0 THEN 1 ELSE IF x < 0 THEN -1 ELSE 0
\* integer division rounding toward zero
TDiv(a, b) == Sign(a) * Sign(b) * (Abs(a) \div Abs(b))
\* overflow to infinity
Round(n) == IF n > MaxVal THEN PInf ELSE IF n < -MaxVal THEN NInf ELSE n
SignedInf(s) == IF s > 0 THEN PInf ELSE NInf

RECURSIVE ISqrtFrom(_, _)
ISqrtFrom(n, r) == IF (r + 1) * (r + 1) > n THEN r ELSE ISqrtFrom(n, r + 1)
\* floor of the square root of a natural number
ISqrt(n) == ISqrtFrom(n, 0)

FNeg(a) == IF IsNaN(a) THEN NaN ELSE -a

FAdd(a, b) ==
    IF IsNaN(a) \/ IsNaN(b) THEN NaN
    ELSE IF IsInf(a) /\ IsInf(b) THEN (IF a = b THEN a ELSE NaN)
    ELSE IF IsInf(a) THEN a
    ELSE IF IsInf(b) THEN b
    ELSE Round(a + b)

FMul(a, b) ==
    IF IsNaN(a) \/ IsNaN(b) THEN NaN
    ELSE IF IsInf(a) \/ IsInf(b)
         THEN (IF a = 0 \/ b = 0 THEN NaN ELSE SignedInf(Sign(a) * Sign(b)))
    ELSE Round(TDiv(a * b, Scale))

FDiv(a, b) ==
    IF IsNaN(a) \/ IsNaN(b) THEN NaN
    ELSE IF IsInf(a) /\ IsInf(b) THEN NaN
    ELSE IF b = 0 THEN (IF a = 0 THEN NaN ELSE SignedInf(Sign(a)))
    ELSE IF IsInf(b) THEN 0
    ELSE IF IsInf(a) THEN SignedInf(Sign(a) * Sign(b))
    ELSE Round(TDiv(a * Scale, b))

FSqrt(a) ==
    IF IsNaN(a) \/ a < 0 THEN NaN
    ELSE IF a = PInf THEN PInf
    ELSE ISqrt(a * Scale)

\* Python comparisons: every comparison with NaN is false, NaN != x is true
FLe(a, b) == ~IsNaN(a) /\ ~IsNaN(b) /\ a <= b
FGt(a, b) == ~IsNaN(a) /\ ~IsNaN(b) /\ a > b
FNe(a, b) == IsNaN(a) \/ IsNaN(b) \/ a # b

\* ------------------------------------------------- tensor operations
\* self.add(other, alpha=alpha)  /  self.add_(other, alpha=alpha)
TAdd(self, other, alpha) == FAdd(self, FMul(alpha, other))
\* self.addcmul(t1, t2, value=value)
TAddcmul(self, t1, t2, value) == FAdd(self, FMul(value, FMul(t1, t2)))
\* self.addcdiv(t1, t2, value=value)
TAddcdiv(self, t1, t2, value) == FAdd(self, FMul(value, FDiv(t1, t2)))

\* torch._foreach_* : the same operation on every position of the lists
ForeachAdd(selfs, others, alpha) ==
    [i \in 1..Len(selfs) |-> TAdd(selfs[i], others[i], alpha)]
ForeachAddScalar(selfs, s) == [i \in 1..Len(selfs) |-> FAdd(selfs[i], s)]
ForeachMul(selfs, s) == [i \in 1..Len(selfs) |-> FMul(selfs[i], s)]
ForeachAddcmul(selfs, t1, t2, value) ==
    [i \in 1..Len(selfs) |-> TAddcmul(selfs[i], t1[i], t2[i], value)]
ForeachAddcdiv(selfs, t1, t2, value) ==
    [i \in 1..Len(selfs) |-> TAddcdiv(selfs[i], t1[i], t2[i], value)]
ForeachSqrt(selfs) == [i \in 1..Len(selfs) |-> FSqrt(selfs[i])]

\* ------------------------------------------------------------ engines
\* An engine receives five lists of buffers and mutates them in place; the
\* model returns the contents of the five lists after the call.  hp is the
\* record of keyword arguments lr, alpha, eps, weight_decay, momentum, centered.

\* _single_tensor_rmsprop, iteration i of its loop -----------------------
\* grad = grads[i]; if weight_decay != 0: grad = grad.add(param, alpha=weight_decay)
STGrad(b, hp, i) ==
    IF FNe(hp.weight_decay, 0)
    THEN TAdd(b.grads[i], b.params[i], hp.weight_decay)
    ELSE b.grads[i]

\* (mutant) the decay of square_avg is forgotten
STSquareAvgNoDecay(b, hp, i) ==
    TAddcmul(b.square_avgs[i], STGrad(b, hp, i), STGrad(b, hp, i),
             FAdd(One, FNeg(hp.alpha)))

\* square_avg.mul_(alpha).addcmul_(grad, grad, value=1 - alpha)
STSquareAvg(b, hp, i) ==
    TAddcmul(FMul(b.square_avgs[i], hp.alpha), STGrad(b, hp, i), STGrad(b, hp, i),
             FAdd(One, FNeg(hp.alpha)))

\* grad_avg.mul_(alpha).add_(grad, alpha=1 - alpha)
STGradAvg(b, hp, i) ==
    TAdd(FMul(b.grad_avgs[i], hp.alpha), STGrad(b, hp, i), FAdd(One, FNeg(hp.alpha)))

\* avg: the square root is taken before eps is added
STAvg(b, hp, i) ==
    IF hp.centered
    THEN FAdd(FSqrt(TAddcmul(STSquareAvg(b, hp, i), STGradAvg(b, hp, i),
                             STGradAvg(b, hp, i), FNeg(One))),
              hp.eps)
    ELSE FAdd(FSqrt(STSquareAvg(b, hp, i)), hp.eps)

\* buf.mul_(momentum).addcdiv_(grad, avg)
STBuf(b, hp, i) ==
    TAddcdiv(FMul(b.momentum_buffer_list[i], hp.momentum), STGrad(b, hp, i),
             STAvg(b, hp, i), One)

\* param.add_(buf, alpha=-lr)  or  param.addcdiv_(grad, avg, value=-lr)
STParam(b, hp, i) ==
    IF FGt(hp.momentum, 0)
    THEN TAdd(b.params[i], STBuf(b, hp, i), FNeg(hp.lr))
    ELSE TAddcdiv(b.params[i], STGrad(b, hp, i), STAvg(b, hp, i), FNeg(hp.lr))

\* the five lists after _single_tensor_rmsprop; grads is not written
SingleTensorRmsprop(b, hp) ==
    [params |-> [i \in 1..Len(b.params) |-> STParam(b, hp, i)],
     grads |-> b.grads,
     square_avgs |-> [i \in 1..Len(b.params) |-> STSquareAvg(b, hp, i)],
     grad_avgs |-> IF hp.centered
                   THEN [i \in 1..Len(b.params) |-> STGradAvg(b, hp, i)]
                   ELSE b.grad_avgs,
     momentum_buffer_list |->
         IF FGt(hp.momentum, 0)
         THEN [i \in 1..Len(b.params) |-> STBuf(b, hp, i)]
         ELSE b.momentum_buffer_list]

\* _multi_tensor_rmsprop, one list operation after the other --------------
\* if weight_decay != 0: torch._foreach_add_(grads, params, alpha=weight_decay)
\* (in place: the list grads holds the p.grad buffers themselves)
MTGrads(b, hp) ==
    IF FNe(hp.weight_decay, 0)
    THEN ForeachAdd(b.grads, b.params, hp.weight_decay)
    ELSE b.grads

\* _foreach_mul_(square_avgs, alpha); _foreach_addcmul_(square_avgs, grads, grads, 1 - alpha)
MTSquareAvgs(b, hp) ==
    ForeachAddcmul(ForeachMul(b.square_avgs, hp.alpha), MTGrads(b, hp), MTGrads(b, hp),
                   FAdd(One, FNeg(hp.alpha)))

\* _foreach_mul_(grad_avgs, alpha); _foreach_add_(grad_avgs, grads, alpha=1 - alpha)
MTGradAvgs(b, hp) ==
    ForeachAdd(ForeachMul(b.grad_avgs, hp.alpha), MTGrads(b, hp),
               FAdd(One, FNeg(hp.alpha)))

\* avg, centered or not
MTAvg(b, hp) ==
    IF hp.centered
    THEN ForeachAddScalar(
             ForeachSqrt(ForeachAddcmul(MTSquareAvgs(b, hp), MTGradAvgs(b, hp),
                                        MTGradAvgs(b, hp), FNeg(One))),
             hp.eps)
    ELSE ForeachAddScalar(ForeachSqrt(MTSquareAvgs(b, hp)), hp.eps)

\* _foreach_mul_(momentum_buffer_list, momentum); _foreach_addcdiv_(.., grads, avg)
MTBufs(b, hp) ==
    ForeachAddcdiv(ForeachMul(b.momentum_buffer_list, hp.momentum), MTGrads(b, hp),
                   MTAvg(b, hp), One)

\* _foreach_add_(params, momentum_buffer_list, alpha=-lr)  or
\* _foreach_addcdiv_(params, grads, avg, value=-lr)
MTParams(b, hp) ==
    IF FGt(hp.momentum, 0)
    THEN ForeachAdd(b.params, MTBufs(b, hp), FNeg(hp.lr))
    ELSE ForeachAddcdiv(b.params, MTGrads(b, hp), MTAvg(b, hp), FNeg(hp.lr))

\* the five lists after _multi_tensor_rmsprop
MultiTensorRmsprop(b, hp) ==
    IF Len(b.params) = 0 THEN b
    ELSE [params |-> MTParams(b, hp),
          grads |-> MTGrads(b, hp),
          square_avgs |-> MTSquareAvgs(b, hp),
          grad_avgs |-> IF hp.centered THEN MTGradAvgs(b, hp) ELSE b.grad_avgs,
          momentum_buffer_list |->
              IF FGt(hp.momentum, 0) THEN MTBufs(b, hp) ELSE b.momentum_buffer_list]

\* rmsprop(): `foreach is None` resolves to False
ResolveForeach(foreach) == IF foreach = "None" THEN "False" ELSE foreach

\* ------------------------------------------------------------- state
Params == {1, 2, 3}
\* param_groups[g]['params'], in iteration order
Groups == <<(<<1>>), (<<2, 3>>)>>
NGroups == Len(Groups)

VARIABLES
    \* --- RMSprop.__init__
    ctor_args,        \* the arguments of the constructor call
    optimizer,        \* what the call left: the defaults, or the error raised
    \* --- the engines run side by side on two copies of one batch
    ehp,              \* the keyword arguments of the engines
    sc,               \* the five lists handed to _single_tensor_rmsprop
    bt,               \* the five lists handed to _multi_tensor_rmsprop
    eprev,            \* sc and bt before the last engine step
    esteps,           \* engine steps taken
    \* --- an optimizer and its step()
    param_groups,     \* per group: lr, alpha, eps, weight_decay, momentum, centered, foreach
    scripting,        \* torch.jit.is_scripting()
    param,            \* p (the parameter buffer) for each parameter
    grad,             \* p.grad: none, sparse or dense with a value
    state,            \* self.state[p]; keys = {} when there is no entry
    pc,               \* position of the running step() call, "idle" between calls
    gi, pi,           \* group index and index inside group['params']
    params_with_grad, \* the list gathered for the current group
    has_closure,      \* closure is not None
    loss,             \* the local variable loss
    outcome,          \* how the last call ended: "returned" or the error raised
    ret,              \* the value the last call returned
    \* --- history
    calls,            \* step() calls started
    closure_calls,    \* closure invocations during the current call
    param0, state0,   \* param and state when the current call started
    grad0,            \* grad when the loop over the groups started
    closure_ret,      \* what the closure returned during the current call
    applied,          \* per parameter: times an engine applied the update to it
    applied0,         \* applied when the current call started
    engine_used       \* per group: the engine that processed its batch in the current call

ctor_vars == <<ctor_args, optimizer>>
engine_vars == <<ehp, sc, bt, eprev, esteps>>
store_vars == <<param, grad, state>>
call_vars == <<pc, gi, pi, params_with_grad, has_closure, loss, outcome, ret>>
hist_vars == <<calls, closure_calls, closure_ret, param0, state0, grad0, applied, applied0,
               engine_used>>
main_vars == <<param_groups, scripting, store_vars, call_vars, hist_vars>>
vars == <<ctor_vars, engine_vars, main_vars>>

\* ------------------------------------------------ values held elsewhere
\* Each specification below moves one part of the state; the other parts stay
\* at these values.
NoArgs == [lr |-> 0, alpha |-> 0, eps |-> 0, weight_decay |-> 0, momentum |-> 0,
           centered |-> FALSE, foreach |-> "None"]
NoOptimizer == [constructed |-> FALSE, error |-> "none", defaults |-> NoArgs,
                state |-> {}]
NoLists == [params |-> <<>>, grads |-> <<>>, square_avgs |-> <<>>,
            grad_avgs |-> <<>>, momentum_buffer_list |-> <<>>]
NoGrad == [kind |-> "none", val |-> 0]
NoState == [keys |-> {}, step |-> 0, square_avg |-> 0, momentum_buffer |-> 0,
            grad_avg |-> 0]

CtorIdle == ctor_args = NoArgs /\ optimizer = NoOptimizer
EngineIdle ==
    /\ ehp = NoArgs /\ sc = NoLists /\ bt = NoLists
    /\ eprev = [sc |-> NoLists, bt |-> NoLists] /\ esteps = 0
MainIdle ==
    /\ param_groups = [g \in 1..NGroups |-> NoArgs] /\ scripting = FALSE
    /\ param = [p \in Params |-> 0] /\ grad = [p \in Params |-> NoGrad]
    /\ state = [p \in Params |-> NoState]
    /\ pc = "idle" /\ gi = 1 /\ pi = 1 /\ params_with_grad = <<>>
    /\ has_closure = FALSE /\ loss = "None" /\ outcome = "none" /\ ret = "None"
    /\ calls = 0 /\ closure_calls = 0
    /\ param0 = [p \in Params |-> 0] /\ state0 = [p \in Params |-> NoState]
    /\ grad0 = [p \in Params |-> NoGrad]
    /\ closure_ret = "None"
    /\ applied = [p \in Params |-> 0] /\ applied0 = [p \in Params |-> 0]
    /\ engine_used = [g \in 1..NGroups |-> "none"]

\* ======================================================================
\* RMSprop.__init__
\* ======================================================================
\* the values a caller may pass for lr, alpha, eps, weight_decay, momentum
HyperInputs == {-Half, 0, Half, NaN}
CtorInputs ==
    [lr : HyperInputs, alpha : HyperInputs, eps : HyperInputs,
     weight_decay : HyperInputs, momentum : HyperInputs,
     centered : BOOLEAN, foreach : {"None", "False", "True"}]

\* (mutant) the check of alpha is missing
FirstInvalidNoAlpha(a) ==
    IF ~FLe(0, a.lr) THEN "lr"
    ELSE IF ~FLe(0, a.eps) THEN "eps"
    ELSE IF ~FLe(0, a.momentum) THEN "momentum"
    ELSE IF ~FLe(0, a.weight_decay) THEN "weight_decay"
    ELSE "none"

\* the checks of __init__, in order: the name of the first argument refused
FirstInvalid(a) ==
    IF ~FLe(0, a.lr) THEN "lr"
    ELSE IF ~FLe(0, a.eps) THEN "eps"
    ELSE IF ~FLe(0, a.momentum) THEN "momentum"
    ELSE IF ~FLe(0, a.weight_decay) THEN "weight_decay"
    ELSE IF ~FLe(0, a.alpha) THEN "alpha"
    ELSE "none"

\* RMSprop(params, lr, alpha, eps, weight_decay, momentum, centered, foreach)
Construct ==
    /\ ~optimizer.constructed /\ optimizer.error = "none"
    /\ optimizer' =
         LET a == ctor_args IN
         IF FirstInvalid(a) # "none"
         THEN [constructed |-> FALSE, error |-> "InvalidArgument",
               defaults |-> NoArgs, state |-> {}]
         ELSE [constructed |-> TRUE, error |-> "none", defaults |-> a, state |-> {}]
    /\ UNCHANGED <<ctor_args, engine_vars, main_vars>>

CtorInit ==
    /\ ctor_args \in CtorInputs /\ optimizer = NoOptimizer
    /\ EngineIdle /\ MainIdle
CtorNext == Construct
SpecCtor == CtorInit /\ [][CtorNext]_vars

IsNegative(x) == ~IsNaN(x) /\ x < 0
\* the constructor call has been made
Attempted == optimizer.constructed \/ optimizer.error # "none"
HyperArgs(a) == {a.lr, a.eps, a.momentum, a.weight_decay, a.alpha}

\* C10 (as stated): construction fails with InvalidArgument if and only if at
\* least one of lr, eps, momentum, weight_decay, alpha is negative, and a
\* failed construction leaves no defaults and no state.
C10_FailsIffNegative ==
    Attempted =>
        /\ (optimizer.error = "InvalidArgument")
             <=> (\E x \in HyperArgs(ctor_args) : IsNegative(x))
        /\ optimizer.error = "InvalidArgument"
             => ~optimizer.constructed /\ optimizer.defaults = NoArgs
                /\ optimizer.state = {}

\* C10 (amended): construction fails with InvalidArgument if and only if at
\* least one of lr, eps, momentum, weight_decay, alpha is negative or NaN (fails
\* the test 0 <= x); every other combination, zero included, is accepted with
\* the arguments as defaults; a failed construction leaves no defaults and no state.
C10_FailsIffNotNonNegative ==
    Attempted =>
        /\ (optimizer.error = "InvalidArgument")
             <=> (\E x \in HyperArgs(ctor_args) : IsNegative(x) \/ IsNaN(x))
        /\ optimizer.error = "InvalidArgument"
             => ~optimizer.constructed /\ optimizer.defaults = NoArgs
                /\ optimizer.state = {}
        /\ optimizer.error # "InvalidArgument"
             => optimizer.constructed /\ optimizer.defaults = ctor_args
\* a construction refused for a negative alpha alone, the other four being zero
C10_Witness ==
    /\ optimizer.error = "InvalidArgument"
    /\ ctor_args.alpha = -Half
    /\ ctor_args.lr = 0 /\ ctor_args.eps = 0 /\ ctor_args.momentum = 0
    /\ ctor_args.weight_decay = 0

\* ======================================================================
\* The two engines side by side
\* ======================================================================
\* One batch of parameters of one group is handed to _single_tensor_rmsprop
\* (the lists sc) and an identical copy to _multi_tensor_rmsprop (the lists
\* bt).  Each engine step runs both; between steps the caller may write new
\* gradients, the same on both sides, or leave the gradient buffers as they are.
Positions == 1..Cardinality(Params)
EngineHps ==
    [lr : {One}, alpha : {Half, One + One}, eps : {0, Half},
     weight_decay : {0, Half}, momentum : {0, Half}, centered : BOOLEAN,
     foreach : {"None"}]
EngineParamVals == {-One, One}
EngineGradVals == {0, One}
Zeros == [i \in Positions |-> 0]

\* the lists step() builds for a batch whose state entries were just created
FreshLists(ps, gs, hp) ==
    [params |-> ps, grads |-> gs, square_avgs |-> Zeros,
     grad_avgs |-> IF hp.centered THEN Zeros ELSE <<>>,
     momentum_buffer_list |-> IF FGt(hp.momentum, 0) THEN Zeros ELSE <<>>]

EngineInit ==
    /\ ehp \in EngineHps
    /\ \E ps \in [Positions -> EngineParamVals], gs \in [Positions -> EngineGradVals] :
         \* the positions are interchangeable: initial parameters in ascending order
         /\ \A i, j \in Positions : i < j => ps[i] <= ps[j]
         /\ sc = FreshLists(ps, gs, ehp)
         /\ bt = FreshLists(ps, gs, ehp)
    /\ eprev = [sc |-> sc, bt |-> bt]
    /\ esteps = 0
    /\ CtorIdle /\ MainIdle

\* one call of each engine on its own lists
EngineStep ==
    /\ esteps < MaxEngineSteps
    /\ eprev' = [sc |-> sc, bt |-> bt]
    /\ sc' = SingleTensorRmsprop(sc, ehp)
    /\ bt' = MultiTensorRmsprop(bt, ehp)
    /\ esteps' = esteps + 1
    /\ UNCHANGED <<ehp, ctor_vars, main_vars>>

\* the caller writes new gradients into the gradient buffers of both copies
SupplyGrads(gs) ==
    /\ esteps > 0
    /\ sc' = [sc EXCEPT !.grads = gs]
    /\ bt' = [bt EXCEPT !.grads = gs]
    /\ UNCHANGED <<ehp, eprev, esteps, ctor_vars, main_vars>>

EngineNext ==
    \/ EngineStep
    \/ \E gs \in [Positions -> EngineGradVals] : SupplyGrads(gs)
SpecEngine == EngineInit /\ [][EngineNext]_vars

\* C2 (as stated): from identical parameters, accumulators and gradients the
\* two engines leave identical parameters and accumulators after one step and
\* after any number of consecutive steps.
C2_EnginesAgree ==
    /\ sc.params = bt.params
    /\ sc.square_avgs = bt.square_avgs
    /\ sc.grad_avgs = bt.grad_avgs
    /\ sc.momentum_buffer_list = bt.momentum_buffer_list

\* the denominator avg a step computes at position i of lists b when the
\* gradient there is zero and weight_decay is zero
ZeroGradAvg(b, i) ==
    IF ehp.centered
    THEN FAdd(FSqrt(TAddcmul(FMul(b.square_avgs[i], ehp.alpha),
                             FMul(b.grad_avgs[i], ehp.alpha),
                             FMul(b.grad_avgs[i], ehp.alpha), FNeg(One))),
              ehp.eps)
    ELSE FAdd(FSqrt(FMul(b.square_avgs[i], ehp.alpha)), ehp.eps)
MomentumIdle(b, i) == ~FGt(ehp.momentum, 0) \/ b.momentum_buffer_list[i] = 0
ParamKept(before, after, i) == after.params[i] = before.params[i]
SquareAvgDecayed(before, after, i) ==
    after.square_avgs[i] = FMul(before.square_avgs[i], ehp.alpha)

\* C8 (as stated): a step with an all-zero gradient leaves the parameter
\* unchanged and multiplies square_avg by alpha, in either engine.
C8_ZeroGradKeepsParam ==
    esteps > 0 =>
        \A i \in Positions :
            /\ eprev.sc.grads[i] = 0
                 => ParamKept(eprev.sc, sc, i) /\ SquareAvgDecayed(eprev.sc, sc, i)
            /\ eprev.bt.grads[i] = 0
                 => ParamKept(eprev.bt, bt, i) /\ SquareAvgDecayed(eprev.bt, bt, i)

\* C8 (amended): with weight_decay = 0, a step with an all-zero gradient
\* multiplies square_avg by alpha, in either engine; it leaves the parameter
\* unchanged provided also that momentum = 0 or the momentum buffer is zero,
\* and that the denominator avg = sqrt(..) + eps is a number other than zero.
C8_ZeroGradAmended ==
    (esteps > 0 /\ ehp.weight_decay = 0) =>
        \A i \in Positions :
            /\ eprev.sc.grads[i] = 0 =>
                 /\ SquareAvgDecayed(eprev.sc, sc, i)
                 /\ (MomentumIdle(eprev.sc, i) /\ ZeroGradAvg(eprev.sc, i) \notin {0, NaN})
                      => ParamKept(eprev.sc, sc, i)
            /\ eprev.bt.grads[i] = 0 =>
                 /\ SquareAvgDecayed(eprev.bt, bt, i)
                 /\ (MomentumIdle(eprev.bt, i) /\ ZeroGradAvg(eprev.bt, i) \notin {0, NaN})
                      => ParamKept(eprev.bt, bt, i)
\* a zero-gradient step taken on a parameter whose square_avg an earlier step
\* had made positive: square_avg has decayed and the parameter is where it was
C8_Witness ==
    /\ esteps = 2 /\ ehp.weight_decay = 0
    /\ \E i \in Positions :
         /\ eprev.sc.grads[i] = 0 /\ eprev.bt.grads[i] = 0
         /\ eprev.sc.square_avgs[i] > 0 /\ eprev.sc.square_avgs[i] < PInf
         /\ MomentumIdle(eprev.sc, i) /\ ZeroGradAvg(eprev.sc, i) \notin {0, NaN}
         /\ sc.square_avgs[i] < eprev.sc.square_avgs[i]
         /\ bt.square_avgs[i] < eprev.bt.square_avgs[i]
         /\ sc.params[i] = eprev.sc.params[i] /\ bt.params[i] = eprev.bt.params[i]

\* ======================================================================
\* RMSprop.step
\* ======================================================================
\* step() calls explored
MaxCalls == 2

Sparse == [kind |-> "sparse", val |-> 0]
Dense(v) == [kind |-> "dense", val |-> v]
GradVals == {NoGrad, Sparse, Dense(One)}
LossVals == {"loss"}
\* the defaults of the optimizer; each group may override the engine selector
\* (every pair of weight_decay zero or not, momentum zero or not, centered or not)
Defaults(wd, m, c) ==
    [lr |-> One, alpha |-> Half, eps |-> Half, weight_decay |-> wd, momentum |-> m,
     centered |-> c, foreach |-> "None"]
MainDefaults ==
    {Defaults(0, 0, FALSE), Defaults(0, Half, TRUE),
     Defaults(Half, 0, TRUE), Defaults(Half, Half, FALSE)}
Selectors == {"None", "False", "True"}

\* position of p in a list of parameters
IndexIn(list, p) == CHOOSE i \in 1..Len(list) : list[i] = p
InList(list, p) == \E i \in 1..Len(list) : list[i] = p
GroupOf(p) == CHOOSE g \in 1..NGroups : InList(Groups[g], p)

\* (mutant) momentum_buffer is created whatever momentum is
NewStateAlwaysMomentum(hp) ==
    [keys |-> {"step", "square_avg", "momentum_buffer"}
                \cup (IF hp.centered THEN {"grad_avg"} ELSE {}),
     step |-> 0, square_avg |-> 0, momentum_buffer |-> 0, grad_avg |-> 0]

\* the state entry created when len(state) == 0
NewState(hp) ==
    [keys |-> {"step", "square_avg"}
                \cup (IF FGt(hp.momentum, 0) THEN {"momentum_buffer"} ELSE {})
                \cup (IF hp.centered THEN {"grad_avg"} ELSE {}),
     step |-> 0, square_avg |-> 0, momentum_buffer |-> 0, grad_avg |-> 0]

\* the five lists step() hands to rmsprop() for the parameters pwg, read from a
\* store (ps, gs, st) of parameter, gradient and state buffers
BatchLists(pwg, hp, ps, gs, st) ==
    [params |-> [i \in 1..Len(pwg) |-> ps[pwg[i]]],
     grads |-> [i \in 1..Len(pwg) |-> gs[pwg[i]].val],
     square_avgs |-> [i \in 1..Len(pwg) |-> st[pwg[i]].square_avg],
     grad_avgs |-> IF hp.centered
                   THEN [i \in 1..Len(pwg) |-> st[pwg[i]].grad_avg] ELSE <<>>,
     momentum_buffer_list |->
         IF FGt(hp.momentum, 0)
         THEN [i \in 1..Len(pwg) |-> st[pwg[i]].momentum_buffer] ELSE <<>>]

\* (mutant) the batched engine silently falls back to the scalar one
SelectedEngineFallback(foreach) ==
    IF ResolveForeach(foreach) = "True" /\ ~scripting THEN "multi" ELSE "single"

\* rmsprop(): which function the call reaches, or the error it raises
SelectedEngine(foreach) ==
    IF ResolveForeach(foreach) = "True" /\ scripting THEN "IncompatibleMode"
    ELSE IF ResolveForeach(foreach) = "True" /\ ~scripting THEN "multi"
    ELSE "single"

MainInit ==
    /\ \E d \in MainDefaults, sel \in [1..NGroups -> Selectors] :
         param_groups = [g \in 1..NGroups |-> [d EXCEPT !.foreach = sel[g]]]
    /\ scripting \in BOOLEAN
    /\ param = [p \in Params |-> One]
    /\ grad \in [Params -> GradVals]
    /\ state = [p \in Params |-> NoState]
    /\ pc = "idle" /\ gi = 1 /\ pi = 1 /\ params_with_grad = <<>>
    /\ has_closure = FALSE /\ loss = "None" /\ outcome = "none" /\ ret = "None"
    /\ calls = 0 /\ closure_calls = 0 /\ closure_ret = "None"
    /\ param0 = param /\ state0 = state /\ grad0 = grad
    /\ applied = [p \in Params |-> 0] /\ applied0 = [p \in Params |-> 0]
    /\ engine_used = [g \in 1..NGroups |-> "none"]
    /\ CtorIdle /\ EngineIdle

\* the caller (backward pass, zero_grad) writes the gradients between two calls;
\* what the finished call left in its locals and in the history is forgotten
Backward(gs) ==
    /\ pc = "idle" /\ outcome # "none"
    /\ calls < MaxCalls
    /\ grad' = gs /\ grad0' = gs
    /\ outcome' = "none" /\ ret' = "None"
    /\ gi' = 1 /\ pi' = 1 /\ params_with_grad' = <<>>
    /\ has_closure' = FALSE /\ loss' = "None"
    /\ closure_calls' = 0 /\ closure_ret' = "None"
    /\ param0' = param /\ state0' = state /\ applied0' = applied
    /\ engine_used' = [g \in 1..NGroups |-> "none"]
    /\ UNCHANGED <<param, state, pc, calls, applied>>
    /\ UNCHANGED <<param_groups, scripting, ctor_vars, engine_vars>>

\* step(closure) is called: loss = None
StepCall(c) ==
    /\ pc = "idle"
    /\ calls < MaxCalls
    /\ pc' = "closure"
    /\ has_closure' = c /\ loss' = "None"
    /\ outcome' = "running" /\ ret' = "None"
    /\ gi' = 1 /\ pi' = 1 /\ params_with_grad' = <<>>
    /\ calls' = calls + 1 /\ closure_calls' = 0 /\ closure_ret' = "None"
    /\ param0' = param /\ state0' = state /\ grad0' = grad
    /\ applied0' = applied
    /\ engine_used' = [g \in 1..NGroups |-> "none"]
    /\ UNCHANGED <<store_vars, applied, param_groups, scripting, ctor_vars, engine_vars>>

\* closure is not None: loss = closure(); the closure recomputes the gradients
InvokeClosure(l, gs) ==
    /\ pc = "closure" /\ has_closure
    /\ loss' = l /\ closure_ret' = l
    /\ closure_calls' = closure_calls + 1
    /\ grad' = gs /\ grad0' = gs
    /\ pc' = "gather"
    /\ UNCHANGED <<param, state, gi, pi, params_with_grad, has_closure, outcome, ret>>
    /\ UNCHANGED <<calls, param0, state0, applied, applied0, engine_used>>
    /\ UNCHANGED <<param_groups, scripting, ctor_vars, engine_vars>>

\* closure is None
SkipClosure ==
    /\ pc = "closure" /\ ~has_closure
    /\ pc' = "gather"
    /\ UNCHANGED <<store_vars, gi, pi, params_with_grad, has_closure, loss, outcome, ret>>
    /\ UNCHANGED <<hist_vars, param_groups, scripting, ctor_vars, engine_vars>>

\* the parameter the loop `for p in group['params']` is at
CurrentParam == Groups[gi][pi]
\* next iteration of the loop, or the call of rmsprop() after its last one
Advance ==
    IF pi < Len(Groups[gi])
    THEN pi' = pi + 1 /\ pc' = "gather" /\ gi' = gi
    ELSE pi' = pi /\ pc' = "dispatch" /\ gi' = gi

\* p.grad is None: continue
GatherSkip ==
    /\ pc = "gather" /\ grad[CurrentParam].kind = "none"
    /\ Advance
    /\ UNCHANGED <<store_vars, params_with_grad, has_closure, loss, outcome, ret>>
    /\ UNCHANGED <<hist_vars, param_groups, scripting, ctor_vars, engine_vars>>

\* (mutant) the state entry is fetched and created before the sparse check
GatherSparseAfterState ==
    /\ pc = "gather" /\ grad[CurrentParam].kind = "sparse"
    /\ state' = [state EXCEPT ![CurrentParam] =
                    IF @.keys = {} THEN NewState(param_groups[gi]) ELSE @]
    /\ outcome' = "UnsupportedOperation" /\ pc' = "idle"
    /\ UNCHANGED <<param, grad, gi, pi, params_with_grad, has_closure, loss, ret>>
    /\ UNCHANGED <<hist_vars, param_groups, scripting, ctor_vars, engine_vars>>

\* p.grad.is_sparse: raise RuntimeError (p is in params_with_grad by then, a
\* local list that the raise discards)
GatherSparse ==
    /\ pc = "gather" /\ grad[CurrentParam].kind = "sparse"
    /\ outcome' = "UnsupportedOperation" /\ pc' = "idle"
    /\ UNCHANGED <<store_vars, gi, pi, params_with_grad, has_closure, loss, ret>>
    /\ UNCHANGED <<hist_vars, param_groups, scripting, ctor_vars, engine_vars>>

\* a dense gradient: the state entry is fetched, created if empty, its buffers
\* are appended to the lists and its step counter is incremented
GatherDense ==
    /\ pc = "gather" /\ grad[CurrentParam].kind = "dense"
    /\ LET p == CurrentParam
           hp == param_groups[gi]
           entry == IF state[p].keys = {} THEN NewState(hp) ELSE state[p]
           missing == \/ "square_avg" \notin entry.keys
                      \/ FGt(hp.momentum, 0) /\ "momentum_buffer" \notin entry.keys
                      \/ hp.centered /\ "grad_avg" \notin entry.keys
       IN IF missing
          THEN \* state['...'] raises KeyError; the entry created stays
               /\ state' = [state EXCEPT ![p] = entry]
               /\ outcome' = "KeyError" /\ pc' = "idle"
               /\ UNCHANGED <<gi, pi, params_with_grad>>
          ELSE /\ state' = [state EXCEPT ![p] = [entry EXCEPT !.step = @ + 1]]
               /\ params_with_grad' = Append(params_with_grad, p)
               /\ Advance
               /\ UNCHANGED outcome
    /\ UNCHANGED <<param, grad, has_closure, loss, ret>>
    /\ UNCHANGED <<hist_vars, param_groups, scripting, ctor_vars, engine_vars>>

\* after rmsprop() returned: the next group, or `return loss`
NextGroup ==
    IF gi < NGroups
    THEN gi' = gi + 1 /\ pi' = 1 /\ params_with_grad' = <<>> /\ pc' = "gather"
    ELSE UNCHANGED <<gi, pi, params_with_grad>> /\ pc' = "return"

\* rmsprop(): foreach and torch.jit.is_scripting(): raise RuntimeError
DispatchRaise ==
    /\ pc = "dispatch"
    /\ SelectedEngine(param_groups[gi].foreach) = "IncompatibleMode"
    /\ outcome' = "IncompatibleMode" /\ pc' = "idle"
    /\ UNCHANGED <<store_vars, gi, pi, params_with_grad, has_closure, loss, ret>>
    /\ UNCHANGED <<hist_vars, param_groups, scripting, ctor_vars, engine_vars>>

\* (mutant) the engine works on copies of the parameter buffers
ParamAfterCopy(r, pwg, p) == param[p]

\* the buffers after an engine mutated the lists in place: r holds the lists
\* after the call, pwg the parameters they belong to
ParamAfter(r, pwg, p) ==
    IF InList(pwg, p) THEN r.params[IndexIn(pwg, p)] ELSE param[p]
GradAfter(r, pwg, p) ==
    IF InList(pwg, p) THEN [grad[p] EXCEPT !.val = r.grads[IndexIn(pwg, p)]] ELSE grad[p]
StateAfter(r, pwg, hp, p) ==
    IF InList(pwg, p)
    THEN [state[p] EXCEPT
            !.square_avg = r.square_avgs[IndexIn(pwg, p)],
            !.grad_avg = IF hp.centered THEN r.grad_avgs[IndexIn(pwg, p)] ELSE @,
            !.momentum_buffer = IF FGt(hp.momentum, 0)
                                THEN r.momentum_buffer_list[IndexIn(pwg, p)] ELSE @]
    ELSE state[p]

\* rmsprop() reaches func(...) and func mutates the buffers of the batch
RunEngine(engine) ==
    LET hp == param_groups[gi]
        lists == BatchLists(params_with_grad, hp, param, grad, state)
        r == IF engine = "multi" THEN MultiTensorRmsprop(lists, hp)
             ELSE SingleTensorRmsprop(lists, hp)
        pwg == params_with_grad
    IN /\ param' = [p \in Params |-> ParamAfter(r, pwg, p)]
       /\ grad' = [p \in Params |-> GradAfter(r, pwg, p)]
       /\ state' = [p \in Params |-> StateAfter(r, pwg, hp, p)]
       /\ applied' = [p \in Params |-> IF InList(pwg, p) THEN applied[p] + 1
                                        ELSE applied[p]]
       /\ engine_used' = [engine_used EXCEPT ![gi] = engine]
       /\ NextGroup
       /\ UNCHANGED <<has_closure, loss, outcome, ret>>
       /\ UNCHANGED <<calls, closure_calls, closure_ret, param0, state0, grad0, applied0>>
       /\ UNCHANGED <<param_groups, scripting, ctor_vars, engine_vars>>

\* func = _single_tensor_rmsprop
DispatchSingle ==
    /\ pc = "dispatch"
    /\ SelectedEngine(param_groups[gi].foreach) = "single"
    /\ RunEngine("single")

\* func = _multi_tensor_rmsprop
DispatchMulti ==
    /\ pc = "dispatch"
    /\ SelectedEngine(param_groups[gi].foreach) = "multi"
    /\ RunEngine("multi")

\* (mutant) step() returns None whatever the closure returned
ReturnNone ==
    /\ pc = "return"
    /\ ret' = "None" /\ outcome' = "returned" /\ pc' = "idle"
    /\ UNCHANGED <<store_vars, gi, pi, params_with_grad, has_closure, loss>>
    /\ UNCHANGED <<hist_vars, param_groups, scripting, ctor_vars, engine_vars>>

\* return loss
Return ==
    /\ pc = "return"
    /\ ret' = loss /\ outcome' = "returned" /\ pc' = "idle"
    /\ UNCHANGED <<store_vars, gi, pi, params_with_grad, has_closure, loss>>
    /\ UNCHANGED <<hist_vars, param_groups, scripting, ctor_vars, engine_vars>>

Next ==
    \/ \E gs \in [Params -> GradVals] : Backward(gs)
    \/ \E c \in BOOLEAN : StepCall(c)
    \/ \E l \in LossVals, gs \in [Params -> GradVals] : InvokeClosure(l, gs)
    \/ SkipClosure
    \/ GatherSkip
    \/ GatherSparse
    \/ GatherDense
    \/ DispatchRaise
    \/ DispatchSingle
    \/ DispatchMulti
    \/ Return
Init == MainInit
Spec == Init /\ [][Next]_vars

\* ----------------------------------------------------------- claims
\* the last call ended with error e, and nothing happened since
Aborted(e) == pc = "idle" /\ outcome = e
CallEnded == pc = "idle" /\ outcome \notin {"none", "running"}
\* p comes before position i of group g in the iteration order of step()
Before(p, g, i) ==
    \/ GroupOf(p) < g
    \/ GroupOf(p) = g /\ IndexIn(Groups[g], p) < i
GroupSet(g) == {Groups[g][i] : i \in 1..Len(Groups[g])}
\* the parameters of group g that had a dense gradient when the loop started
DenseOf(g) == SelectSeq(Groups[g], LAMBDA p : grad0[p].kind = "dense")
\* the lists the update formula of group g's engine yields from the buffers as
\* they were when the call started
ExpectedAfter(g) ==
    LET hp == param_groups[g]
        st == [p \in Params |-> IF state0[p].keys = {} THEN NewState(hp) ELSE state0[p]]
        lists == BatchLists(DenseOf(g), hp, param0, grad0, st)
    IN IF SelectedEngine(hp.foreach) = "multi" THEN MultiTensorRmsprop(lists, hp)
       ELSE SingleTensorRmsprop(lists, hp)
\* the update of this call was applied to p's parameter buffer and is still there
Updated(p) ==
    /\ applied[p] = applied0[p] + 1
    /\ param[p] = ExpectedAfter(GroupOf(p)).params[IndexIn(DenseOf(GroupOf(p)), p)]
\* no update of this call was applied to p's parameter buffer
NotUpdated(p) == applied[p] = applied0[p] /\ param[p] = param0[p]
\* p was gathered (its step counter advanced) but no update was applied to it
GatheredOnly(p) ==
    /\ NotUpdated(p)
    /\ state[p].keys # {} /\ state[p].step = state0[p].step + 1
SameBuffers(p) ==
    /\ param[p] = param0[p]
    /\ state[p].square_avg = state0[p].square_avg
    /\ state[p].grad_avg = state0[p].grad_avg
    /\ state[p].momentum_buffer = state0[p].momentum_buffer

\* C1: a step() call leaves every gradient buffer with the contents it had
\* when the loop over the groups started (after the closure, if any).
C1_GradsUntouched == pc # "closure" => grad = grad0

\* C3 (as stated): when step() aborts with UnsupportedOperation, every
\* parameter with a dense gradient that comes before the sparse one, in an
\* earlier group or earlier in the same group, has had its update applied.
C3_EarlierAllUpdated ==
    Aborted("UnsupportedOperation") =>
        \A p \in Params :
            (grad0[p].kind = "dense" /\ Before(p, gi, pi)) => Updated(p)

\* C3 (amended): when step() aborts with UnsupportedOperation, every parameter
\* with a dense gradient in an earlier group has had its update applied to its
\* parameter buffer and keeps it; a parameter with a dense gradient earlier in
\* the same group as the sparse one has not: its parameter buffer is unchanged.
C3_EarlierGroupsUpdated ==
    Aborted("UnsupportedOperation") =>
        \A p \in Params :
            (grad0[p].kind = "dense" /\ Before(p, gi, pi)) =>
                IF GroupOf(p) < gi THEN Updated(p) ELSE NotUpdated(p)
\* the third parameter is sparse, the first two are dense: the first one (earlier
\* group) moved, the second one (same group) did not
C3_Witness ==
    /\ Aborted("UnsupportedOperation") /\ gi = 2 /\ pi = 2
    /\ grad0[1].kind = "dense" /\ grad0[2].kind = "dense"
    /\ Updated(1) /\ param[1] # param0[1]
    /\ GatheredOnly(2)

\* C4: when step() aborts with UnsupportedOperation on a sparse gradient, the
\* state of that parameter and of every later parameter is as it was before the
\* call: no entry created, step counter and accumulators of an entry unchanged.
C4_SparseLeavesState ==
    Aborted("UnsupportedOperation") =>
        /\ grad[CurrentParam].kind = "sparse"
        /\ \A q \in Params : ~Before(q, gi, pi) => state[q] = state0[q]
\* the sparse parameter had an entry from an earlier call, and a later parameter
\* with a dense gradient has none
C4_Witness ==
    /\ Aborted("UnsupportedOperation") /\ gi = 2 /\ pi = 1
    /\ state0[2].keys # {} /\ state0[2].step = 1 /\ state[2] = state0[2]
    /\ grad[3].kind = "dense" /\ state[3].keys = {}

\* C5: between calls, each parameter's step counter equals the number of times
\* the update formula has been applied to it.
C5_StepCountsUpdates ==
    pc = "idle" => \A p \in Params : state[p].step = applied[p]

\* C6: for every parameter with a state entry, grad_avg is present iff the
\* group is centered and momentum_buffer iff its momentum > 0, both from the
\* moment square_avg exists; and no step looks up an absent buffer.
C6_OptionalBuffers ==
    /\ outcome # "KeyError"
    /\ \A p \in Params :
         state[p].keys # {} =>
             /\ {"step", "square_avg"} \subseteq state[p].keys
             /\ ("grad_avg" \in state[p].keys) <=> param_groups[GroupOf(p)].centered
             /\ ("momentum_buffer" \in state[p].keys)
                  <=> FGt(param_groups[GroupOf(p)].momentum, 0)
\* an entry with grad_avg and without momentum_buffer, stepped twice
C6_Witness ==
    \E p \in Params :
        /\ state[p].keys = {"step", "square_avg", "grad_avg"}
        /\ state[p].step = 2 /\ applied[p] = 2

\* the groups that select the batched engine
Batched == {g \in 1..NGroups : ResolveForeach(param_groups[g].foreach) = "True"}
FirstBatched == CHOOSE g \in Batched : \A h \in Batched : g <= h

\* C7 (as stated): when the batched engine is selected in a context that
\* forbids it, the call raises IncompatibleMode at the dispatch of the first
\* group, before any buffer of that group is mutated by the update formula,
\* without falling back to the scalar engine; an unspecified selector resolves
\* to the scalar engine.
C7_RaisesAtFirstGroup ==
    /\ (CallEnded /\ scripting /\ Batched # {}) =>
          /\ outcome = "IncompatibleMode" /\ gi = 1
          /\ \A p \in GroupSet(gi) : SameBuffers(p) /\ applied[p] = applied0[p]
    /\ \A g \in 1..NGroups :
          /\ (scripting /\ g \in Batched) => engine_used[g] = "none"
          /\ param_groups[g].foreach = "None" => engine_used[g] \in {"none", "single"}

\* C7 (amended): when a group selects the batched engine in a context that
\* forbids it, the call ends with IncompatibleMode, raised at the dispatch of
\* the first such group, unless gathering that group or an earlier one aborted
\* first with UnsupportedOperation; at the raise the earlier groups have been
\* processed by the scalar engine and no parameter or accumulator buffer of the
\* raising group has been mutated by the update formula; such a group is never
\* processed by an engine; an unspecified selector resolves to the scalar engine.
C7_RaisesAtFirstBatched ==
    /\ (CallEnded /\ scripting /\ Batched # {}) =>
          /\ outcome \in {"IncompatibleMode", "UnsupportedOperation"}
          /\ gi <= FirstBatched
          /\ outcome = "IncompatibleMode" => gi = FirstBatched
    /\ Aborted("IncompatibleMode") =>
          /\ scripting /\ gi \in Batched
          /\ \A p \in GroupSet(gi) : SameBuffers(p) /\ applied[p] = applied0[p]
          /\ \A g \in 1..(gi - 1) : engine_used[g] = "single"
    /\ \A g \in 1..NGroups :
          /\ (scripting /\ g \in Batched) => engine_used[g] = "none"
          /\ param_groups[g].foreach = "None" => engine_used[g] \in {"none", "single"}
\* the second group is the batched one: the first was updated by the scalar
\* engine, the second was gathered and then refused
C7_Witness ==
    /\ Aborted("IncompatibleMode") /\ gi = 2
    /\ param_groups[1].foreach = "None" /\ engine_used[1] = "single"
    /\ Updated(1) /\ param[1] # param0[1]
    /\ GatheredOnly(2) /\ GatheredOnly(3)

\* C9: a supplied closure is invoked exactly once per call, before any
\* parameter buffer or state entry is touched, and step() returns what it
\* returned; without a closure nothing is invoked and step() returns None.
C9_ClosureOnceFirst ==
    /\ pc = "closure" => closure_calls = 0 /\ param = param0 /\ state = state0
    /\ (pc # "closure" /\ outcome # "none") =>
          closure_calls = (IF has_closure THEN 1 ELSE 0)
    /\ Aborted("returned") =>
          /\ has_closure => ret = closure_ret /\ ret \in LossVals
          /\ ~has_closure => ret = "None"
\* a call with a closure returned its loss after updating a parameter
C9_Witness ==
    /\ Aborted("returned") /\ has_closure /\ ret = "loss" /\ closure_calls = 1
    /\ \E p \in Params : param[p] # param0[p]

====
